---- MODULE Spec2Model ----
(***************************************************************************)
(* Incremental Excel -> PostgreSQL synchronisation (ETL_Excel_Postgres).   *)
(*                                                                         *)
(* The model follows src/main_orchestrator.py (runner loop,                *)
(* export_excel_to_postgres, validate_and_clean_data),                     *)
(* src/utils/table_state.py (get_last_transfer_id),                        *)
(* src/utils/xlsx_extractor.py (xlsx_to_df) and                            *)
(* src/db/insertion_upsert.py (insert_new_modified_records and its         *)
(* normalisation helpers).                                                 *)
(*                                                                         *)
(* A cell value is a record [k, n, s]: k is the Python kind of the value   *)
(* ("num", "str", "none", "nan"), n its number, s its text as a sequence   *)
(* of characters.  A data-frame row is [index, cells]; a data frame is     *)
(* [cols, rows].                                                           *)
(***************************************************************************)
EXTENDS Integers, Sequences, FiniteSets, TLC

\* ------------------------------------------------------------------------
\* Bounds of the model
\* ------------------------------------------------------------------------
\* most rows in the whole workbook (both sheets together)
MaxRows == 2
\* most launches of the runner (python main_orchestrator.py)
MaxProc == 2
\* rows of the bulk sheet used to drive the writer through several batches
BulkLen == 2500
\* most rows of a data frame handed to the validator on its own
MaxValLen == 2

\* ------------------------------------------------------------------------
\* Cell values
\* ------------------------------------------------------------------------
Num(x) == [k |-> "num", n |-> x, s |-> <<>>]
Str(t) == [k |-> "str", n |-> 0, s |-> t]
None == [k |-> "none", n |-> 0, s |-> <<>>]
NaN == [k |-> "nan", n |-> 0, s |-> <<>>]

\* the value row.get(col, "N/A") falls back to
NA == Str(<<"N", "/", "A">>)

id_column == "no de transferencia"
text_column == "concepto"
AllCols == <<id_column, text_column>>

\* the DataFrame() returned for an empty sheet: no columns, no rows
EmptyDF == [cols |-> <<>>, rows |-> <<>>]

Range(f) == {f[i] : i \in DOMAIN f}

\* ------------------------------------------------------------------------
\* Characters: str.isspace, NFKD decomposition, combining marks, upper
\* ------------------------------------------------------------------------
\* "SP" is U+0020, "a_acute" is U+00E1, "A_acute" is U+00C1,
\* "ACUTE" is the spacing acute accent U+00B4, "COMB" is U+0301
IsSpace(c) == c = "SP"

NFKD(c) ==
  CASE c = "a_acute" -> <<"a", "COMB">>
    [] c = "A_acute" -> <<"A", "COMB">>
    [] c = "ACUTE" -> <<"SP", "COMB">>
    [] OTHER -> <<c>>

Combining(c) == c = "COMB"

Upper(c) ==
  CASE c = "a" -> "A"
    [] c = "x" -> "X"
    [] c = "a_acute" -> "A_acute"
    [] OTHER -> c

RECURSIVE Flatten(_)
Flatten(ss) == IF ss = <<>> THEN <<>> ELSE Head(ss) \o Flatten(Tail(ss))

\* " ".join(value.strip().split())
RECURSIVE CollapseFrom(_, _)
CollapseFrom(t, pendingSpace) ==
  IF t = <<>> THEN <<>>
  ELSE IF IsSpace(Head(t)) THEN CollapseFrom(Tail(t), TRUE)
  ELSE (IF pendingSpace THEN <<"SP">> ELSE <<>>) \o <<Head(t)>>
         \o CollapseFrom(Tail(t), FALSE)

RECURSIVE LStrip(_)
LStrip(t) == IF t # <<>> /\ IsSpace(Head(t)) THEN LStrip(Tail(t)) ELSE t

StripSplitJoin(t) == CollapseFrom(LStrip(t), FALSE)

IsNotCombining(c) == ~Combining(c)

_normalize_text_str(t) ==
  LET cleaned == StripSplitJoin(t)
      decomposed == Flatten([i \in 1..Len(cleaned) |-> NFKD(cleaned[i])])
      stripped == SelectSeq(decomposed, IsNotCombining)
  IN [i \in 1..Len(stripped) |-> Upper(stripped[i])]

_normalize_text(value) ==
  IF value.k # "str" THEN value ELSE Str(_normalize_text_str(value.s))

\* pd.to_numeric(..., errors="coerce") on one cell: numbers stay, digit
\* text parses, anything else becomes NaN
DigitText == {<<"1">>, <<"2">>, <<"3">>}
DigitValue(t) == CASE t = <<"1">> -> 1 [] t = <<"2">> -> 2 [] t = <<"3">> -> 3

ToNumeric(value) ==
  CASE value.k = "num" -> value
    [] value.k = "str" /\ value.s \in DigitText -> Num(DigitValue(value.s))
    [] OTHER -> NaN

\* pd.isna(value)
IsNA(value) == value.k \in {"none", "nan"}

\* mutant: value == ""
IsEmptyStr(value) == value.k = "str" /\ value.s = <<>>

\* value.strip() == ""
IsBlankStr(value) == value.k = "str" /\ LStrip(value.s) = <<>>

\* ------------------------------------------------------------------------
\* validate_and_clean_data (main_orchestrator.py)
\* ------------------------------------------------------------------------
\* the issue recorded for one column of one row, <<>> when the value is fine
ColumnIssue(col, value) ==
  IF IsNA(value) THEN <<[col |-> col, issue |-> "NaN/None"]>>
  ELSE IF IsBlankStr(value) THEN <<[col |-> col, issue |-> "string vacio"]>>
  ELSE <<>>

\* row_issues of one row: the issues of its columns, in column order
RowIssues(cols, row) ==
  Flatten([j \in 1..Len(cols) |-> ColumnIssue(cols[j], row.cells[cols[j]])])

ProblematicRecord(cols, row, sheet) ==
  [index |-> row.index,
   no_transferencia |->
     IF id_column \in Range(cols) THEN row.cells[id_column] ELSE NA,
   issues |-> RowIssues(cols, row),
   sheet |-> sheet]

\* mutant: valid_indices.append(index) outside the else branch, so every
\* row stays in df_clean
validate_keeping_all(df, sheet) ==
  LET HasIssues(row) == RowIssues(df.cols, row) # <<>>
      bad == SelectSeq(df.rows, HasIssues)
  IN [df_clean |-> df,
      problematic_records |->
        [j \in 1..Len(bad) |-> ProblematicRecord(df.cols, bad[j], sheet)]]

\* the index labels of a data frame are unique on every path of the program
\* (read_excel's RangeIndex, dropna, reset_index), so df.loc[valid_indices]
\* is the rows whose label is in valid_indices, in frame order
validate_and_clean_data(df, sheet) ==
  LET HasIssues(row) == RowIssues(df.cols, row) # <<>>
      NoIssues(row) == RowIssues(df.cols, row) = <<>>
      bad == SelectSeq(df.rows, HasIssues)
      good == SelectSeq(df.rows, NoIssues)
      valid_indices == {good[j].index : j \in 1..Len(good)}
      InValid(row) == row.index \in valid_indices
  IN [df_clean |-> [cols |-> df.cols, rows |-> SelectSeq(df.rows, InValid)],
      problematic_records |->
        [j \in 1..Len(bad) |-> ProblematicRecord(df.cols, bad[j], sheet)]]

\* ------------------------------------------------------------------------
\* Data preparation of insert_new_modified_records (insertion_upsert.py)
\* ------------------------------------------------------------------------
NUMERIC_COLUMNS == {"importe", "anio", "no_de_transferencia"}
batch_size == 1000

\* one cell through _clean_numeric_columns, _normalize_dataframe and
\* where(notna, None); the model has no timestamp cells
PrepareCell(col, value) ==
  LET numeric == IF col \in NUMERIC_COLUMNS THEN ToNumeric(value) ELSE value
      normalized == _normalize_text(numeric)
  IN IF IsNA(normalized) THEN None ELSE normalized

\* data = [tuple(row) for row in df_clean.values]
PrepareData(df) ==
  [j \in 1..Len(df.rows) |->
     [c \in Range(df.cols) |-> PrepareCell(c, df.rows[j].cells[c])]]

Min(a, b) == IF a < b THEN a ELSE b

\* mutant: the slice stops one record short, data[i : i + batch_size - 1]
BatchOneShort(data, i) ==
  SubSeq(data, i + 1, Min(i + batch_size - 1, Len(data)))

\* data[i : i + batch_size] for a 0-based offset i
Batch(data, i) == SubSeq(data, i + 1, Min(i + batch_size, Len(data)))

\* ------------------------------------------------------------------------
\* get_last_transfer_id (table_state.py): the scalar of
\* SELECT id ORDER BY id DESC LIMIT 1 (PostgreSQL sorts NULL first in DESC)
\* ------------------------------------------------------------------------
MaxOf(S) == CHOOSE x \in S : \A y \in S : y <= x

LastIdScalar(rows) ==
  LET ids == {rows[j][id_column] : j \in 1..Len(rows)}
  IN IF rows = <<>> THEN None
     ELSE IF \E v \in ids : v.k # "num" THEN None
     ELSE Num(MaxOf({v.n : v \in ids}))

\* ------------------------------------------------------------------------
\* xlsx_to_df (xlsx_extractor.py) on a sheet that could be read
\* ------------------------------------------------------------------------
AllNA(cols, cells) == \A j \in 1..Len(cols) : IsNA(cells[cols[j]])

ReadSheet(sheet) ==
  LET indexed == [j \in 1..Len(sheet.rows) |->
                    [index |-> j - 1, cells |-> sheet.rows[j]]]
      NotAllNA(row) == ~AllNA(sheet.cols, row.cells)
      kept == SelectSeq(indexed, NotAllNA)
  IN IF kept = <<>> \/ sheet.cols = <<>> THEN EmptyDF
     ELSE [cols |-> sheet.cols, rows |-> kept]

DfEmpty(df) == df.rows = <<>> \/ df.cols = <<>>

\* mutant: the id column is left as it was read
CoerceIdUnchanged(df) == df

\* df[id_column] = pd.to_numeric(df[id_column], errors="coerce")
CoerceId(df) ==
  [df EXCEPT !.rows =
     [j \in 1..Len(df.rows) |->
        [df.rows[j] EXCEPT !.cells[id_column] = ToNumeric(@)]]]

\* df.reset_index(drop=True)
ResetIndex(df) ==
  [df EXCEPT !.rows =
     [j \in 1..Len(df.rows) |-> [df.rows[j] EXCEPT !.index = j - 1]]]

\* mutant: a missing last id is taken to mean that every row is new
MatchingIndicesOrStart(df, last) ==
  LET found == {j - 1 : j \in {p \in 1..Len(df.rows) :
                                /\ df.rows[p].cells[id_column].k = "num"
                                /\ last.k = "num"
                                /\ df.rows[p].cells[id_column].n = last.n}}
  IN IF found = {} THEN {-1} ELSE found

\* df_reset.index[df_reset[id_column] == last_transfer_id].tolist(), as the
\* set of 0-based positions; NaN equals nothing
MatchingIndices(df, last) ==
  {j - 1 : j \in {p \in 1..Len(df.rows) :
                    /\ df.rows[p].cells[id_column].k = "num"
                    /\ last.k = "num"
                    /\ df.rows[p].cells[id_column].n = last.n}}

\* mutant: matching_indices[0]
FirstMatch(matching) == CHOOSE x \in matching : \A y \in matching : x <= y

\* matching_indices[-1]
LastMatch(matching) == MaxOf(matching)

\* mutant: df_reset.iloc[last_match_index :]
RowsFrom(df, cut) ==
  [df EXCEPT !.rows = SubSeq(df.rows, cut + 1, Len(df.rows))]

\* df_reset.iloc[last_match_index + 1 :]
RowsAfter(df, cut) ==
  [df EXCEPT !.rows = SubSeq(df.rows, cut + 2, Len(df.rows))]

\* mutant: the first data row is taken for a header and skipped
AllButFirst(df) == [df EXCEPT !.rows = SubSeq(df.rows, 2, Len(df.rows))]

\* line 324, the table is empty: df_new_records = df_excel
AllRecords(df) == df

\* ------------------------------------------------------------------------
\* State
\* ------------------------------------------------------------------------
sheets_name == <<"COBRANZA", "COMISIONES">>
SheetNames == Range(sheets_name)

\* the table a sheet is mapped to; "" for a sheet that is not recognised
TableOf(sheet) ==
  CASE sheet = "COMISIONES" -> "table_comisiones"
    [] sheet = "COBRANZA" -> "table_cobranza"
    [] OTHER -> ""

TableNames == {TableOf(sh) : sh \in SheetNames}

VARIABLES
  excel,       \* the workbook: sheet name -> [cols, rows]
  tables,      \* the tables that exist in the database
  store,       \* table name -> committed rows, in insertion order
  store0,      \* the value of store when the current call began
  tx,          \* rows inserted by the open transaction, not yet committed
  txOpen,      \* a transaction of insert_new_modified_records is open
  procs,       \* launches of the runner so far
  queue,       \* sheets the running process has still to export
  problematic_records_global,  \* the module global of that name
  pc,          \* position of the current export_excel_to_postgres call
  loc,         \* its local variables
  w,           \* the local variables of insert_new_modified_records
  sent,        \* calls of send_email_report made by the current call
  report,      \* the arguments of the last send_email_report call
  tracked      \* a call of track_changes: its arguments and its result

vars == <<excel, tables, store, store0, tx, txOpen, procs, queue,
          problematic_records_global, pc, loc, w, sent, report, tracked>>

\* no call of track_changes: export_excel_to_postgres makes none
NoTrack == [state |-> "none", df_existing |-> [cols |-> <<>>, rows |-> <<>>],
            records_dict |-> <<>>, out |-> <<>>]

\* the module global before any run has assigned it
GlobalUnset == [set |-> FALSE, val |-> <<>>]

NoDF == [cols |-> <<>>, rows |-> <<>>]

\* the locals at the entry of export_excel_to_postgres (lines 199-203);
\* the ones assigned later hold a placeholder until then
LocInit(sheet) ==
  [sheet_name |-> sheet,
   table_name |-> "",
   ejecucion_exitosa |-> FALSE,
   error_message |-> "",
   rows_inserted |-> 0,
   status_message |-> "",
   last_transfer_id |-> None,
   db_status |-> "",
   df_excel |-> NoDF,
   df_new_records |-> NoDF,
   df_clean_records |-> NoDF,
   problematic_records |-> <<>>,
   last_match_index |-> -1,
   response_user |-> ""]

WInit == [data |-> <<>>, i |-> 0, total_inserted |-> 0]

NoReport ==
  [sheet |-> "", ok |-> FALSE, rows_inserted |-> 0, status |-> "",
   error |-> "", problematic |-> <<>>]

\* ------------------------------------------------------------------------
\* Initial states: a small workbook of arbitrary rows, or the bulk workbook
\* ------------------------------------------------------------------------
RawAnchors == {Num(1), Num(2), Str(<<"x">>)}
RawTexts == {Str(<<"a">>), Str(<<"SP">>)}
RawRows == {[c \in Range(AllCols) |->
               IF c = id_column THEN a ELSE t] : a \in RawAnchors, t \in RawTexts}

SeqsUpTo(S, n) == UNION {[1..m -> S] : m \in 0..n}

\* a sheet without the id column
NoIdSheet == [cols |-> <<text_column>>,
              rows |-> <<[c \in {text_column} |-> Str(<<"a">>)]>>]

SmallSheets ==
  {[cols |-> AllCols, rows |-> rs] : rs \in SeqsUpTo(RawRows, MaxRows)}
    \cup {NoIdSheet}

SmallWorkbooks ==
  {wb \in [SheetNames -> SmallSheets] :
     Len(wb["COBRANZA"].rows) + Len(wb["COMISIONES"].rows) <= MaxRows}

StoredRow(a) ==
  [c \in Range(AllCols) |-> IF c = id_column THEN Num(a) ELSE Str(<<"A">>)]

\* what a table holds at the start: nothing, or one row synchronised earlier
InitStores == {<<>>} \cup {<<StoredRow(a)>> : a \in 1..2}

\* a sheet of BulkLen good rows with the ids 1, 2, ... in row order
BulkRows ==
  [j \in 1..BulkLen |->
     [c \in Range(AllCols) |-> IF c = id_column THEN Num(j) ELSE Str(<<"a">>)]]

\* the two worked scenarios of the design's testable properties: the last id
\* 42 at positions 3 and 7 of the sheet, and the ids 10, 20, 30, 40 with 20
\* stored last and a blank field in the row of 30
GoodRow(a) ==
  [c \in Range(AllCols) |-> IF c = id_column THEN Num(a) ELSE Str(<<"a">>)]
BlankRow(a) ==
  [c \in Range(AllCols) |-> IF c = id_column THEN Num(a) ELSE Str(<<"SP">>)]

OneSheetWorkbook(rows) ==
  [sh \in SheetNames |->
     IF sh = "COBRANZA" THEN [cols |-> AllCols, rows |-> rows]
     ELSE [cols |-> AllCols, rows |-> <<>>]]

TieBreakRows ==
  <<GoodRow(39), GoodRow(40), GoodRow(41), GoodRow(42), GoodRow(43),
    GoodRow(44), GoodRow(45), GoodRow(42), GoodRow(46)>>

EndToEndRows == <<GoodRow(10), GoodRow(20), BlankRow(30), GoodRow(40)>>

InitCommon ==
  /\ store0 = store
  /\ tx = <<>>
  /\ txOpen = FALSE
  /\ procs = 0
  /\ queue = <<>>
  /\ problematic_records_global = GlobalUnset
  /\ pc = "idle"
  /\ loc = LocInit("")
  /\ w = WInit
  /\ sent = 0
  /\ report = NoReport
  /\ tracked = NoTrack

InitSmall ==
  /\ excel \in SmallWorkbooks
  /\ tables \in SUBSET TableNames
  /\ store \in [TableNames -> InitStores]
  /\ \A t \in TableNames : t \notin tables => store[t] = <<>>
  /\ InitCommon

InitBulk ==
  /\ excel = OneSheetWorkbook(BulkRows)
  /\ tables = TableNames
  /\ store = [t \in TableNames |-> <<>>]
  /\ InitCommon

InitScenario ==
  /\ \/ /\ excel = OneSheetWorkbook(TieBreakRows)
        /\ store = [t \in TableNames |->
                      IF t = "table_cobranza" THEN <<StoredRow(42)>> ELSE <<>>]
     \/ /\ excel = OneSheetWorkbook(EndToEndRows)
        /\ store = [t \in TableNames |->
                      IF t = "table_cobranza"
                        THEN <<StoredRow(10), StoredRow(20)>> ELSE <<>>]
  /\ tables = TableNames
  /\ InitCommon

Init == InitSmall \/ InitBulk \/ InitScenario

\* ------------------------------------------------------------------------
\* The runner (__main__) and the entry of export_excel_to_postgres
\* ------------------------------------------------------------------------
\* python main_orchestrator.py: a fresh interpreter, so the module globals
\* are unset, and the loop over sheets_name begins
StartProcess ==
  /\ pc = "idle"
  /\ queue = <<>>
  /\ procs < MaxProc
  /\ procs' = procs + 1
  /\ queue' = sheets_name
  /\ problematic_records_global' = GlobalUnset
  /\ sent' = 0
  /\ report' = NoReport
  /\ UNCHANGED <<tracked, excel, tables, store0, store, tx, txOpen, pc, loc, w>>

\* for sheet in sheets_name: export_excel_to_postgres(sheet, EXCEL_PATH),
\* up to the try statement
BeginRun ==
  /\ pc = "idle"
  /\ queue # <<>>
  /\ queue' = Tail(queue)
  /\ loc' = LocInit(Head(queue))
  /\ w' = WInit
  /\ sent' = 0
  /\ store0' = store
  /\ pc' = "resolve"
  /\ UNCHANGED <<tracked, excel, tables, store, tx, txOpen, procs,
                 problematic_records_global, report>>

\* the messages of the errors the properties speak of
AnchorNotFound == "ultimo id no encontrado"
WriteFailure == "error en la insercion"
EngineFailure == "no se pudo crear el engine"
CommitFailure == "error en el commit"

\* mutant: the rows of the batches executed so far are reported as inserted
RaisedCountingBatches(l, msg) ==
  [l EXCEPT !.error_message = msg, !.rows_inserted = w.total_inserted]

\* mutant: the except clause logs the exception and records no message
RaisedWithoutMessage(l, msg) == l

\* control reaches the except clause: error_message = str(e)
Raised(l, msg) == [l EXCEPT !.error_message = msg]

\* the message recorded for a sheet that is neither COMISIONES nor COBRANZA
UnknownSheetError == "hoja no reconocida"

\* lines 206-237: the table of the sheet
ResolveTable ==
  /\ pc = "resolve"
  /\ IF TableOf(loc.sheet_name) = ""
       THEN /\ loc' = [loc EXCEPT !.error_message = UnknownSheetError]
            /\ pc' = "finally"
       ELSE /\ loc' = [loc EXCEPT !.table_name = TableOf(loc.sheet_name)]
            /\ pc' = "query"
  /\ UNCHANGED <<tracked, excel, tables, store0, store, tx, txOpen, procs, queue,
                 problematic_records_global, w, sent, report>>

\* get_last_transfer_id(table_name): <<value, state>>; connected is FALSE
\* when the engine cannot be created or a query raises
get_last_transfer_id(table, connected) ==
  IF ~connected THEN <<None, "error">>
  ELSE IF table \notin tables THEN <<None, "not_found">>
  ELSE IF LastIdScalar(store[table]) # None
         THEN <<LastIdScalar(store[table]), "ok">>
  ELSE <<None, "empty">>

\* the messages of the errors raised on the states error and not_found
StoreError == "error de conexion"
TableMissing == "la tabla no existe"

\* mutant: the state of the query is not examined before the source is read
QueryStateUnchecked ==
  /\ pc = "query"
  /\ \E connected \in BOOLEAN :
       LET res == get_last_transfer_id(loc.table_name, connected)
       IN /\ loc' = [loc EXCEPT !.last_transfer_id = res[1],
                                !.db_status = res[2]]
          /\ pc' = "load"
  /\ UNCHANGED <<tracked, excel, tables, store0, store, tx, txOpen, procs, queue,
                 problematic_records_global, w, sent, report>>

\* lines 239-254
QueryState ==
  /\ pc = "query"
  /\ \E connected \in BOOLEAN :
       LET res == get_last_transfer_id(loc.table_name, connected)
           l1 == [loc EXCEPT !.last_transfer_id = res[1], !.db_status = res[2]]
       IN IF res[2] = "error"
            THEN /\ loc' = Raised(l1, StoreError)
                 /\ pc' = "finally"
          ELSE IF res[2] = "not_found"
            THEN /\ loc' = Raised(l1, TableMissing)
                 /\ pc' = "finally"
          ELSE /\ loc' = l1
               /\ pc' = "load"
  /\ UNCHANGED <<tracked, excel, tables, store0, store, tx, txOpen, procs, queue,
                 problematic_records_global, w, sent, report>>

\* the message of the error raised for a source that is None or empty
EmptySource == "excel vacio o None"

\* mutant: the frame read is used without the test of line 258
LoadSourceUnchecked ==
  /\ pc = "load"
  /\ \E readable \in BOOLEAN :
       LET df == ReadSheet(excel[loc.sheet_name])
       IN IF id_column \notin Range(df.cols)
            THEN /\ loc' = Raised(loc, "la columna no existe")
                 /\ pc' = "finally"
          ELSE /\ loc' = [loc EXCEPT !.df_excel = CoerceId(df)]
               /\ pc' = "cut"
  /\ UNCHANGED <<tracked, excel, tables, store0, store, tx, txOpen, procs,
                 queue, problematic_records_global, w, sent, report>>

\* lines 256-267: xlsx_to_df returns None when the file cannot be read
LoadSource ==
  /\ pc = "load"
  /\ \E readable \in BOOLEAN :
       LET df == ReadSheet(excel[loc.sheet_name])
       IN IF ~readable \/ DfEmpty(df)
            THEN /\ loc' = Raised(loc, EmptySource)
                 /\ pc' = "finally"
          ELSE IF id_column \notin Range(df.cols)
            THEN /\ loc' = Raised(loc, "la columna no existe")
                 /\ pc' = "finally"
          ELSE /\ loc' = [loc EXCEPT !.df_excel = CoerceId(df)]
               /\ pc' = "cut"
  /\ UNCHANGED <<tracked, excel, tables, store0, store, tx, txOpen, procs, queue,
                 problematic_records_global, w, sent, report>>

\* lines 271-330: the new records are the rows after the last row whose id
\* is the last id of the table
LocateCut ==
  /\ pc = "cut"
  /\ IF loc.last_transfer_id # None /\ loc.db_status = "ok"
       THEN LET df_reset == ResetIndex(CoerceId(loc.df_excel))
                matching_indices ==
                  MatchingIndices(df_reset, loc.last_transfer_id)
            IN IF matching_indices = {}
                 THEN /\ loc' = Raised([loc EXCEPT !.df_excel =
                                          CoerceId(loc.df_excel)],
                                       AnchorNotFound)
                      /\ pc' = "finally"
                 ELSE /\ loc' = [loc EXCEPT
                           !.df_excel = CoerceId(loc.df_excel),
                           !.last_match_index = LastMatch(matching_indices),
                           !.df_new_records =
                              RowsAfter(df_reset, LastMatch(matching_indices))]
                      /\ pc' = "check_empty"
     ELSE IF loc.db_status = "empty"
       THEN /\ loc' = [loc EXCEPT !.df_new_records = AllRecords(loc.df_excel)]
            /\ pc' = "check_empty"
     ELSE /\ loc' = Raised(loc, "estado inesperado")
          /\ pc' = "finally"
  /\ UNCHANGED <<tracked, excel, tables, store0, store, tx, txOpen, procs, queue,
                 problematic_records_global, w, sent, report>>

\* the outcomes of the successful returns before the write
NoNewData == "no hay datos nuevos"
AllProblematic == "todos problematicos"

\* mutant: the new records go to the writer without validation or
\* confirmation
CheckNewRecordsThenWrite ==
  /\ pc = "check_empty"
  /\ IF DfEmpty(loc.df_new_records)
       THEN /\ loc' = [loc EXCEPT !.ejecucion_exitosa = TRUE,
                                  !.status_message = NoNewData]
            /\ pc' = "finally"
       ELSE /\ loc' = [loc EXCEPT !.df_clean_records = loc.df_new_records]
            /\ pc' = "insert"
  /\ UNCHANGED <<tracked, excel, tables, store0, store, tx, txOpen, procs, queue,
                 problematic_records_global, w, sent, report>>

\* lines 332-339
CheckNewRecords ==
  /\ pc = "check_empty"
  /\ IF DfEmpty(loc.df_new_records)
       THEN /\ loc' = [loc EXCEPT !.ejecucion_exitosa = TRUE,
                                  !.status_message = NoNewData]
            /\ pc' = "finally"
       ELSE /\ loc' = loc
            /\ pc' = "validate"
  /\ UNCHANGED <<tracked, excel, tables, store0, store, tx, txOpen, procs, queue,
                 problematic_records_global, w, sent, report>>

\* mutant: the return at line 355 without the assignment of line 354
ValidateWithoutGlobal ==
  /\ pc = "validate"
  /\ LET res == validate_and_clean_data(loc.df_new_records, loc.sheet_name)
         l1 == [loc EXCEPT !.df_clean_records = res.df_clean,
                           !.problematic_records = res.problematic_records]
     IN IF DfEmpty(res.df_clean)
          THEN /\ loc' = [l1 EXCEPT !.ejecucion_exitosa = TRUE,
                                    !.status_message = AllProblematic]
               /\ UNCHANGED problematic_records_global
               /\ pc' = "finally"
          ELSE /\ loc' = l1
               /\ UNCHANGED problematic_records_global
               /\ pc' = "confirm"
  /\ UNCHANGED <<tracked, excel, tables, store0, store, tx, txOpen, procs, queue, w, sent,
                 report>>

\* lines 341-355
Validate ==
  /\ pc = "validate"
  /\ LET res == validate_and_clean_data(loc.df_new_records, loc.sheet_name)
         l1 == [loc EXCEPT !.df_clean_records = res.df_clean,
                           !.problematic_records = res.problematic_records]
     IN IF DfEmpty(res.df_clean)
          THEN /\ loc' = [l1 EXCEPT !.ejecucion_exitosa = TRUE,
                                    !.status_message = AllProblematic]
               /\ problematic_records_global' =
                    [set |-> TRUE, val |-> res.problematic_records]
               /\ pc' = "finally"
          ELSE /\ loc' = l1
               /\ UNCHANGED problematic_records_global
               /\ pc' = "confirm"
  /\ UNCHANGED <<tracked, excel, tables, store0, store, tx, txOpen, procs, queue, w, sent,
                 report>>

\* what the operator may type at the prompt; "EOF" stands for input()
\* raising EOFError on a closed stdin
Responses == {"s", "S", "n", "EOF"}
Lower(r) == IF r = "S" THEN "s" ELSE r

\* mutant: a call the operator declines counts as successful
ConfirmDeclineAsSuccess ==
  /\ pc = "confirm"
  /\ \E r \in Responses :
       IF r = "EOF"
         THEN /\ loc' = Raised(loc, "EOF when reading a line")
              /\ UNCHANGED problematic_records_global
              /\ pc' = "finally"
       ELSE IF Lower(r) # "s"
         THEN /\ loc' = [loc EXCEPT !.response_user = r,
                                    !.ejecucion_exitosa = TRUE]
              /\ UNCHANGED problematic_records_global
              /\ pc' = "finally"
       ELSE /\ loc' = [loc EXCEPT !.response_user = r]
            /\ problematic_records_global' =
                 [set |-> TRUE, val |-> loc.problematic_records]
            /\ pc' = "insert"
  /\ UNCHANGED <<tracked, excel, tables, store0, store, tx, txOpen, procs, queue, w, sent,
                 report>>

\* mutant: the writer is called whatever the operator answered
ConfirmUnchecked ==
  /\ pc = "confirm"
  /\ \E r \in Responses :
       IF r = "EOF"
         THEN /\ loc' = Raised(loc, "EOF when reading a line")
              /\ UNCHANGED problematic_records_global
              /\ pc' = "finally"
       ELSE /\ loc' = [loc EXCEPT !.response_user = r]
            /\ problematic_records_global' =
                 [set |-> TRUE, val |-> loc.problematic_records]
            /\ pc' = "insert"
  /\ UNCHANGED <<tracked, excel, tables, store0, store, tx, txOpen, procs, queue, w, sent,
                 report>>

\* lines 357-375
Confirm ==
  /\ pc = "confirm"
  /\ \E r \in Responses :
       IF r = "EOF"
         THEN /\ loc' = Raised(loc, "EOF when reading a line")
              /\ UNCHANGED problematic_records_global
              /\ pc' = "finally"
       ELSE IF Lower(r) # "s"
         THEN /\ loc' = [loc EXCEPT !.response_user = r]
              /\ UNCHANGED problematic_records_global
              /\ pc' = "finally"
       ELSE /\ loc' = [loc EXCEPT !.response_user = r]
            /\ problematic_records_global' =
                 [set |-> TRUE, val |-> loc.problematic_records]
            /\ pc' = "insert"
  /\ UNCHANGED <<tracked, excel, tables, store0, store, tx, txOpen, procs, queue, w, sent,
                 report>>

\* ------------------------------------------------------------------------
\* insert_new_modified_records(df_clean_records, df_empty, table, id_column)
\* ------------------------------------------------------------------------
\* mutant: the caller passes df_new_records, not df_clean_records
InsertBeginAllNew ==
  /\ pc = "insert"
  /\ \E engine_ok \in BOOLEAN :
       IF engine_ok
         THEN /\ w' = [data |-> PrepareData(loc.df_new_records),
                       i |-> 0, total_inserted |-> 0]
              /\ txOpen' = TRUE
              /\ tx' = <<>>
              /\ loc' = loc
              /\ pc' = "batch"
         ELSE /\ loc' = Raised(loc, EngineFailure)
              /\ UNCHANGED <<w, txOpen, tx>>
              /\ pc' = "finally"
  /\ UNCHANGED <<tracked, excel, tables, store0, store, procs, queue,
                 problematic_records_global, sent, report>>

\* lines 200-225: the engine, the prepared data, and engine.begin(); the
\* call raises when the engine is None or the connection cannot be opened
InsertBegin ==
  /\ pc = "insert"
  /\ \E engine_ok \in BOOLEAN :
       IF engine_ok
         THEN /\ w' = [data |-> PrepareData(loc.df_clean_records),
                       i |-> 0, total_inserted |-> 0]
              /\ txOpen' = TRUE
              /\ tx' = <<>>
              /\ loc' = loc
              /\ pc' = "batch"
         ELSE /\ loc' = Raised(loc, EngineFailure)
              /\ UNCHANGED <<w, txOpen, tx>>
              /\ pc' = "finally"
  /\ UNCHANGED <<tracked, excel, tables, store0, store, procs, queue,
                 problematic_records_global, sent, report>>

\* mutant: every batch is committed on its own (engine.connect() with
\* autocommit in place of engine.begin())
InsertBatchAutocommit ==
  /\ pc = "batch"
  /\ w.i < Len(w.data)
  /\ \E executes \in BOOLEAN :
       IF executes
         THEN /\ store' = [store EXCEPT
                             ![loc.table_name] = @ \o Batch(w.data, w.i)]
              /\ w' = [w EXCEPT
                         !.total_inserted = @ + Len(Batch(w.data, w.i)),
                         !.i = @ + batch_size]
              /\ UNCHANGED <<tx, txOpen, loc, pc>>
         ELSE /\ UNCHANGED <<store, tx>>
              /\ txOpen' = FALSE
              /\ w' = w
              /\ loc' = Raised(loc, WriteFailure)
              /\ pc' = "finally"
  /\ UNCHANGED <<tracked, excel, tables, store0, procs, queue,
                 problematic_records_global, sent, report>>

\* mutant: the connection is opened without a with block, so an exception
\* leaves its transaction open
InsertBatchLeavingOpen ==
  /\ pc = "batch"
  /\ w.i < Len(w.data)
  /\ \E executes \in BOOLEAN :
       IF executes
         THEN /\ tx' = tx \o Batch(w.data, w.i)
              /\ w' = [w EXCEPT
                         !.total_inserted = @ + Len(Batch(w.data, w.i)),
                         !.i = @ + batch_size]
              /\ UNCHANGED <<txOpen, loc, pc>>
         ELSE /\ UNCHANGED <<tx, txOpen>>
              /\ w' = w
              /\ loc' = Raised(loc, WriteFailure)
              /\ pc' = "finally"
  /\ UNCHANGED <<tracked, excel, tables, store0, store, procs, queue,
                 problematic_records_global, sent, report>>

\* mutant: after a failing batch the writer is called again
InsertBatchRetried ==
  /\ pc = "batch"
  /\ w.i < Len(w.data)
  /\ \E executes \in BOOLEAN :
       IF executes
         THEN /\ tx' = tx \o Batch(w.data, w.i)
              /\ w' = [w EXCEPT
                         !.total_inserted = @ + Len(Batch(w.data, w.i)),
                         !.i = @ + batch_size]
              /\ UNCHANGED <<txOpen, loc, pc>>
         ELSE /\ tx' = <<>>
              /\ txOpen' = FALSE
              /\ w' = w
              /\ loc' = loc
              /\ pc' = "insert"
  /\ UNCHANGED <<tracked, excel, tables, store0, store, procs, queue,
                 problematic_records_global, sent, report>>

\* lines 226-232: one batch; a failing statement leaves the with block by an
\* exception, which rolls the transaction back and propagates to the caller
InsertBatch ==
  /\ pc = "batch"
  /\ w.i < Len(w.data)
  /\ \E executes \in BOOLEAN :
       IF executes
         THEN /\ tx' = tx \o Batch(w.data, w.i)
              /\ w' = [w EXCEPT
                         !.total_inserted = @ + Len(Batch(w.data, w.i)),
                         !.i = @ + batch_size]
              /\ UNCHANGED <<txOpen, loc, pc>>
         ELSE /\ tx' = <<>>
              /\ txOpen' = FALSE
              /\ w' = w
              /\ loc' = Raised(loc, WriteFailure)
              /\ pc' = "finally"
  /\ UNCHANGED <<tracked, excel, tables, store0, store, procs, queue,
                 problematic_records_global, sent, report>>

\* the with block ends: commit (or roll back when the commit fails); the
\* update part is skipped because df_modified is empty, and the call returns
InsertCommit ==
  /\ pc = "batch"
  /\ w.i >= Len(w.data)
  /\ \E commits \in BOOLEAN :
       IF commits
         THEN /\ store' = [store EXCEPT ![loc.table_name] = @ \o tx]
              /\ loc' = loc
              /\ pc' = "inserted"
         ELSE /\ UNCHANGED store
              /\ loc' = Raised(loc, CommitFailure)
              /\ pc' = "finally"
  /\ tx' = <<>>
  /\ txOpen' = FALSE
  /\ UNCHANGED <<tracked, excel, tables, store0, procs, queue, problematic_records_global,
                 w, sent, report>>

\* the status of a call whose insertion returned
InsertsDone == "inserciones completadas"

\* mutant: rows_inserted = len(df_new_records)
AfterInsertCountingNew ==
  /\ pc = "inserted"
  /\ loc' = [loc EXCEPT !.rows_inserted = Len(loc.df_new_records.rows),
                        !.status_message = InsertsDone,
                        !.ejecucion_exitosa = TRUE]
  /\ pc' = "finally"
  /\ UNCHANGED <<tracked, excel, tables, store0, store, tx, txOpen, procs, queue,
                 problematic_records_global, w, sent, report>>

\* lines 381-388
AfterInsert ==
  /\ pc = "inserted"
  /\ loc' = [loc EXCEPT !.rows_inserted = Len(loc.df_clean_records.rows),
                        !.status_message = InsertsDone,
                        !.ejecucion_exitosa = TRUE]
  /\ pc' = "finally"
  /\ UNCHANGED <<tracked, excel, tables, store0, store, tx, txOpen, procs, queue,
                 problematic_records_global, w, sent, report>>

\* the global log_file is assigned by the runner (line 477); a call made
\* without the runner finds it defined only if its caller defined it, and
\* line 447 raises NameError otherwise, before send_email_report
LogFileDefined == IF procs = 0 THEN BOOLEAN ELSE {TRUE}

\* mutant: the report is sent from the success path only
FinallyOnSuccessOnly ==
  /\ pc = "finally"
  /\ IF loc.ejecucion_exitosa
       THEN /\ report' =
                 [sheet |-> loc.sheet_name,
                  ok |-> TRUE,
                  rows_inserted |-> loc.rows_inserted,
                  status |-> loc.status_message,
                  error |-> "",
                  problematic |-> problematic_records_global.val]
            /\ sent' = sent + 1
       ELSE UNCHANGED <<report, sent>>
  /\ pc' = "idle"
  /\ loc' = LocInit("")
  /\ w' = WInit
  /\ UNCHANGED <<tracked, excel, tables, store0, store, tx, txOpen, procs, queue,
                 problematic_records_global>>

\* mutant: the except clause raises again after recording the error, and the
\* loop of the runner ends
FinallyThenAbort ==
  /\ pc = "finally"
  /\ report' =
       [sheet |-> loc.sheet_name,
        ok |-> loc.ejecucion_exitosa,
        rows_inserted |-> IF loc.ejecucion_exitosa THEN loc.rows_inserted ELSE 0,
        status |-> IF loc.ejecucion_exitosa THEN loc.status_message ELSE "",
        error |-> IF loc.ejecucion_exitosa THEN "" ELSE loc.error_message,
        problematic |-> problematic_records_global.val]
  /\ sent' = sent + 1
  /\ pc' = "idle"
  /\ loc' = LocInit("")
  /\ w' = WInit
  /\ queue' = IF loc.error_message = "" THEN queue ELSE <<>>
  /\ UNCHANGED <<tracked, excel, tables, store0, store, tx, txOpen, procs,
                 problematic_records_global>>

\* lines 394-467: the report is built and send_email_report is called, then
\* export_excel_to_postgres returns and its locals are gone
Finally ==
  /\ pc = "finally"
  /\ \E defined \in LogFileDefined :
       IF defined
         THEN /\ report' =
                   [sheet |-> loc.sheet_name,
                    ok |-> loc.ejecucion_exitosa,
                    rows_inserted |->
                      IF loc.ejecucion_exitosa THEN loc.rows_inserted ELSE 0,
                    status |->
                      IF loc.ejecucion_exitosa THEN loc.status_message ELSE "",
                    error |->
                      IF loc.ejecucion_exitosa THEN "" ELSE loc.error_message,
                    problematic |-> problematic_records_global.val]
              /\ sent' = sent + 1
         ELSE UNCHANGED <<report, sent>>
  /\ pc' = "idle"
  /\ loc' = LocInit("")
  /\ w' = WInit
  /\ UNCHANGED <<tracked, excel, tables, store0, store, tx, txOpen, procs, queue,
                 problematic_records_global>>

\* ------------------------------------------------------------------------
\* The environment: between two launches a row is appended to a sheet
\* ------------------------------------------------------------------------
AppendRow ==
  /\ pc = "idle"
  /\ queue = <<>>
  /\ procs >= 1
  /\ procs < MaxProc
  /\ Len(excel["COBRANZA"].rows) + Len(excel["COMISIONES"].rows) < MaxRows
  /\ \E sh \in SheetNames, r \in RawRows :
       /\ id_column \in Range(excel[sh].cols)
       /\ excel' = [excel EXCEPT ![sh].rows = Append(@, r)]
  /\ UNCHANGED <<tracked, tables, store, store0, tx, txOpen, procs, queue,
                 problematic_records_global, pc, loc, w, sent, report>>

Next ==
  \/ StartProcess
  \/ BeginRun
  \/ ResolveTable
  \/ QueryState
  \/ LoadSource
  \/ LocateCut
  \/ CheckNewRecords
  \/ Validate
  \/ Confirm
  \/ InsertBegin
  \/ InsertBatch
  \/ InsertCommit
  \/ AfterInsert
  \/ Finally
  \/ AppendRow

Spec == Init /\ [][Next]_vars

\* ------------------------------------------------------------------------
\* The steps of a call follow one another without waiting for anything but
\* the operator's answer, which input() returns (or EOFError ends); the
\* launches of the runner and the edits of the workbook are the environment's
\* ------------------------------------------------------------------------
RunStep ==
  \/ BeginRun
  \/ ResolveTable
  \/ QueryState
  \/ LoadSource
  \/ LocateCut
  \/ CheckNewRecords
  \/ Validate
  \/ Confirm
  \/ InsertBegin
  \/ InsertBatch
  \/ InsertCommit
  \/ AfterInsert
  \/ Finally

\* the rows of the workbooks the fair specification starts from
MaxLiveRows == 1

InitLive ==
  \/ /\ InitSmall
     /\ Len(excel["COBRANZA"].rows) + Len(excel["COMISIONES"].rows)
          <= MaxLiveRows
  \/ InitScenario

\* the launches of the runner and the steps of its calls
NextLive ==
  \/ StartProcess
  \/ RunStep

FairSpec == InitLive /\ [][NextLive]_vars /\ WF_vars(RunStep)

\* ------------------------------------------------------------------------
\* validate_and_clean_data on its own: any frame the caller can pass
\* ------------------------------------------------------------------------
ValIds == {Num(1), Num(2), NaN}
ValTexts == {Str(<<"a">>), Str(<<"SP", "a">>), Str(<<>>), Str(<<"SP">>),
             None, NaN, Num(5)}
ValRows == {[c \in Range(AllCols) |->
               IF c = id_column THEN a ELSE t] : a \in ValIds, t \in ValTexts}

\* the frames of rs whose index labels start at first
ValFrame(rs, first) ==
  [cols |-> AllCols,
   rows |-> [j \in 1..Len(rs) |-> [index |-> first + j - 1, cells |-> rs[j]]]]

InitValidate ==
  /\ excel = OneSheetWorkbook(<<>>)
  /\ tables = TableNames
  /\ store = [t \in TableNames |-> <<>>]
  /\ store0 = store
  /\ tx = <<>>
  /\ txOpen = FALSE
  /\ procs = 1
  /\ queue = Tail(sheets_name)
  /\ problematic_records_global = GlobalUnset
  /\ pc = "validate"
  /\ \E rs \in SeqsUpTo(ValRows, MaxValLen) \ {<<>>}, first \in 0..1 :
       loc = [LocInit(Head(sheets_name)) EXCEPT
                !.table_name = TableOf(Head(sheets_name)),
                !.db_status = "empty",
                !.df_excel = ValFrame(rs, first),
                !.df_new_records = ValFrame(rs, first)]
  /\ w = WInit
  /\ sent = 0
  /\ report = NoReport
  /\ tracked = NoTrack

SpecValidate == InitValidate /\ [][Validate]_vars

\* ------------------------------------------------------------------------
\* Vocabulary of the properties
\* ------------------------------------------------------------------------
\* the table of the sheet being exported
CurTable == TableOf(loc.sheet_name)

\* the source has been loaded by the current call
SourceLoaded == pc # "idle" /\ loc.df_excel.rows # <<>>

\* the positions (from 1) of the loaded source rows whose id is the last id
AnchorPositions ==
  {p \in 1..Len(loc.df_excel.rows) :
     /\ loc.df_excel.rows[p].cells[id_column].k = "num"
     /\ loc.df_excel.rows[p].cells[id_column].n = loc.last_transfer_id.n}

\* the rows the current call has added to its table so far
WrittenRows ==
  IF CurTable = "" THEN <<>>
  ELSE SubSeq(store[CurTable], Len(store0[CurTable]) + 1, Len(store[CurTable]))

\* no table has changed since the call began
NothingWritten == store = store0 /\ tx = <<>>

\* C1: with the state ok and the last id at no row of the source, a call that
\* is past the search for the cut has failed with the anchor-not-found error,
\* is not successful and has written nothing; and a report of that error is
\* a failure report of a call that left every table as it found it
C1_AnchorFailClosed ==
  /\ (SourceLoaded /\ pc # "cut" /\ loc.db_status = "ok" /\ AnchorPositions = {})
       => /\ pc = "finally"
          /\ loc.error_message = AnchorNotFound
          /\ ~loc.ejecucion_exitosa
          /\ loc.rows_inserted = 0
          /\ NothingWritten
  /\ (pc = "idle" /\ report.error = AnchorNotFound)
       => ~report.ok /\ report.rows_inserted = 0 /\ store = store0

C1_Witness ==
  /\ pc = "finally"
  /\ loc.db_status = "ok"
  /\ loc.df_excel.rows # <<>>
  /\ AnchorPositions = {}
  /\ loc.error_message = AnchorNotFound

\* C2: with the state ok and the last id at one or more rows of the source,
\* the cut is the highest of those rows and the new records are exactly the
\* rows after it, in source order
C2_CutIsLastOccurrence ==
  (SourceLoaded /\ pc # "cut" /\ loc.db_status = "ok" /\ AnchorPositions # {})
    => LET src == loc.df_excel.rows
           new == loc.df_new_records.rows
           cut == loc.last_match_index + 1
       IN /\ cut \in AnchorPositions
          /\ \A p \in AnchorPositions : p <= cut
          /\ Len(new) = Len(src) - cut
          /\ \A j \in 1..Len(new) : new[j].cells = src[cut + j].cells
          /\ loc.error_message # AnchorNotFound

\* the last id stands at two rows or more, rows stand before and after the
\* last of them, and the call is past the search
C2_Witness ==
  /\ pc = "validate"
  /\ loc.db_status = "ok"
  /\ Cardinality(AnchorPositions) >= 2
  /\ loc.df_new_records.rows # <<>>
  /\ \E p \in 1..Len(loc.df_excel.rows) :
       p < loc.last_match_index + 1 /\ p \notin AnchorPositions

\* C3: with the state empty, every row of the loaded source is a new record,
\* in source order, and no search for the last id has taken place
C3_EmptyTableTakesAll ==
  (SourceLoaded /\ pc # "cut" /\ loc.db_status = "empty")
    => /\ loc.df_new_records.rows = loc.df_excel.rows
       /\ loc.last_match_index = -1
       /\ loc.error_message # AnchorNotFound

C3_Witness ==
  /\ pc = "validate"
  /\ loc.db_status = "empty"
  /\ Len(loc.df_new_records.rows) >= 2

\* the writer failed on its second batch, after the first had executed
SecondBatchFailed ==
  /\ pc = "finally"
  /\ loc.error_message = WriteFailure
  /\ Len(w.data) > batch_size
  /\ w.i = batch_size

\* C4: while a call runs, the rows it has added to its table are none or all
\* of the rows given to the writer, and no other table changes: none while
\* the batches execute, none after any error, all of them once the
\* transaction has committed
C4_SingleTransaction ==
  pc # "idle" =>
    /\ \A t \in TableNames :
         /\ Len(store[t]) >= Len(store0[t])
         /\ SubSeq(store[t], 1, Len(store0[t])) = store0[t]
         /\ t # CurTable => store[t] = store0[t]
    /\ WrittenRows \in {<<>>, w.data}
    /\ pc = "batch" => WrittenRows = <<>>
    /\ (pc = "finally" /\ loc.error_message # "")
         => WrittenRows = <<>> /\ tx = <<>> /\ ~txOpen
    /\ pc = "inserted"
         => WrittenRows = w.data /\ w.data # <<>> /\ w.i >= Len(w.data)

\* a batch fails after an earlier batch of the same call has executed
C4_Witness ==
  /\ SecondBatchFailed
  /\ w.total_inserted = batch_size
  /\ WrittenRows = <<>>

\* C5 as stated: after a failure on the second batch the call reports the
\* 1000 rows of the first batch as inserted and has raised the write failure
C5_ReportsFirstBatch ==
  SecondBatchFailed
    => loc.rows_inserted = batch_size /\ loc.error_message = WriteFailure

\* C5 amended: after a failure on the second batch the call has raised the
\* write failure, reports 0 rows inserted and is not successful, and no row
\* of the first batch is in the store; the report sent for a write failure
\* is a failure report with 0 rows inserted
C5_ReportsNothingCommitted ==
  /\ SecondBatchFailed
       => /\ loc.rows_inserted = 0
          /\ ~loc.ejecucion_exitosa
          /\ store = store0
  /\ (pc = "idle" /\ report.error = WriteFailure)
       => ~report.ok /\ report.rows_inserted = 0 /\ store = store0

\* the failure report of a call of more than two batches that failed on the
\* second one has been sent
C5_Witness ==
  /\ pc = "idle"
  /\ report.error = WriteFailure
  /\ report.rows_inserted = 0
  /\ Len(excel[Head(sheets_name)].rows) > 2 * batch_size
  /\ store = store0

\* the ids of a sheet that to_numeric can read, in row order
NumericIds(sheet) ==
  IF id_column \notin Range(sheet.cols) THEN <<>>
  ELSE LET coerced == [j \in 1..Len(sheet.rows) |->
                         ToNumeric(sheet.rows[j][id_column])]
           IsNum(c) == c.k = "num"
       IN SelectSeq(coerced, IsNum)

UniqueIds(sheet) ==
  LET ids == NumericIds(sheet)
  IN Cardinality({ids[j].n : j \in 1..Len(ids)}) = Len(ids)

IncreasingIds(sheet) ==
  LET ids == NumericIds(sheet)
  IN \A j \in 1..(Len(ids) - 1) : ids[j].n < ids[j + 1].n

\* no two rows of a table have the same id
NoDupIds(rows) ==
  Cardinality({rows[j][id_column] : j \in 1..Len(rows)}) = Len(rows)

\* C6 as stated: while the ids of a sheet are unique, no id is stored twice
\* in its table, whatever runs and appended rows came before
C6_UniqueIdsNeverRewritten ==
  \A sh \in SheetNames :
    UniqueIds(excel[sh]) => NoDupIds(store[TableOf(sh)])

\* C6 amended: while the ids of a sheet increase in row order, no id is
\* stored twice in its table, whatever runs and appended rows came before
C6_IncreasingIdsNeverRewritten ==
  \A sh \in SheetNames :
    IncreasingIds(excel[sh]) => NoDupIds(store[TableOf(sh)])

\* a later launch of the runner has inserted rows of a sheet with increasing
\* ids into a table that held rows already
C6_Witness ==
  /\ procs >= 2
  /\ pc = "inserted"
  /\ IncreasingIds(excel[loc.sheet_name])
  /\ store0[CurTable] # <<>>
  /\ loc.last_match_index >= 0

\* a field the validator reports
FieldIsMissing(cell) ==
  \/ cell.k \in {"none", "nan"}
  \/ cell.k = "str" /\ \A i \in 1..Len(cell.s) : cell.s[i] = "SP"

RowHasMissingField(cols, cells) ==
  \E j \in 1..Len(cols) : FieldIsMissing(cells[cols[j]])

\* the index labels of the new records the validator reported
QuarantinedIndices ==
  {loc.problematic_records[j].index : j \in 1..Len(loc.problematic_records)}

\* C9: the rows given to the writer are the clean records of the call, row
\* by row, none of them a new record the validator reported or a row with a
\* missing field, and the rows the call adds to the store are none or those
C9_OnlyCleanWritten ==
  (pc \in {"batch", "inserted"} \/ (pc = "finally" /\ w.data # <<>>))
    => LET clean == loc.df_clean_records.rows
           quarantined == QuarantinedIndices
       IN /\ Len(w.data) = Len(clean)
          /\ \A j \in 1..Len(clean) :
               /\ w.data[j][id_column] = clean[j].cells[id_column]
               /\ clean[j].index \notin quarantined
               /\ ~RowHasMissingField(loc.df_clean_records.cols, w.data[j])
          /\ Len(clean) + Cardinality(quarantined)
               = Len(loc.df_new_records.rows)
          /\ WrittenRows \in {<<>>, w.data}

\* a call whose validator reported a record has committed the other records
C9_Witness ==
  /\ pc = "inserted"
  /\ loc.problematic_records # <<>>
  /\ WrittenRows = w.data
  /\ Len(WrittenRows) < Len(loc.df_new_records.rows)

\* the validator has returned to the current call
Validated ==
  \/ pc = "confirm"
  \/ pc = "finally" /\ loc.status_message = AllProblematic

IndexOf(rows) == {rows[j].index : j \in 1..Len(rows)}

\* C7: the index labels of the clean records and of the problematic records
\* are disjoint and together are those of the input, no record is counted
\* twice, and each part holds its records in input order
C7_ExactPartition ==
  Validated
    => LET input == loc.df_new_records.rows
           clean == loc.df_clean_records.rows
           prob == loc.problematic_records
           InClean(row) == row.index \in IndexOf(clean)
           InProb(row) == row.index \in IndexOf(prob)
           probRows == SelectSeq(input, InProb)
       IN /\ IndexOf(clean) \cap IndexOf(prob) = {}
          /\ IndexOf(clean) \cup IndexOf(prob) = IndexOf(input)
          /\ Len(clean) + Len(prob) = Len(input)
          /\ clean = SelectSeq(input, InClean)
          /\ Len(prob) = Len(probRows)
          /\ \A j \in 1..Len(prob) : prob[j].index = probRows[j].index

\* the validator has split a frame into a clean and a problematic part
C7_Witness ==
  /\ pc = "confirm"
  /\ loc.problematic_records # <<>>
  /\ loc.df_clean_records.rows # <<>>
  /\ Len(loc.df_new_records.rows) >= 2

\* C8: a record is problematic exactly when one of its fields is None, NaN
\* or a string of no character other than white space; its entry lists the
\* names of those fields in column order and carries the id of the record;
\* the other records are the clean records, as they were given
C8_ProblematicIffMissingField ==
  Validated
    => LET input == loc.df_new_records.rows
           cols == loc.df_new_records.cols
           clean == loc.df_clean_records.rows
           prob == loc.problematic_records
       IN /\ \A j \in 1..Len(input) :
               /\ RowHasMissingField(cols, input[j].cells)
                    <=> input[j].index \in IndexOf(prob)
               /\ ~RowHasMissingField(cols, input[j].cells)
                    <=> input[j] \in Range(clean)
          /\ \A j \in 1..Len(prob) :
               \E i \in 1..Len(input) :
                 LET Missing(c) == FieldIsMissing(input[i].cells[c])
                     named == [k \in 1..Len(prob[j].issues) |->
                                 prob[j].issues[k].col]
                 IN /\ input[i].index = prob[j].index
                    /\ named = SelectSeq(cols, Missing)
                    /\ named # <<>>
                    /\ prob[j].no_transferencia = input[i].cells[id_column]

\* a record with a blank text and a record whose text has white space and a
\* letter have been validated together
C8_Witness ==
  /\ pc = "confirm"
  /\ \E j \in 1..Len(loc.problematic_records) :
       loc.problematic_records[j].issues
         = <<[col |-> text_column, issue |-> "string vacio"]>>
  /\ \E j \in 1..Len(loc.df_clean_records.rows) :
       loc.df_clean_records.rows[j].cells[text_column] = Str(<<"SP", "a">>)

C11_StoreUnavailableFailsClosed ==
  /\ (pc # "idle" /\ loc.db_status \in {"not_found", "error"})
       => /\ pc = "finally"
          /\ loc.error_message
               = (IF loc.db_status = "error" THEN StoreError ELSE TableMissing)
          /\ ~loc.ejecucion_exitosa
          /\ loc.rows_inserted = 0
          /\ loc.df_excel = NoDF
          /\ loc.df_new_records = NoDF
          /\ w = WInit
          /\ NothingWritten
  /\ (pc = "idle" /\ report.error \in {StoreError, TableMissing})
       => ~report.ok /\ report.rows_inserted = 0 /\ store = store0

\* the table of a sheet that has rows does not exist
C11_Witness ==
  /\ pc = "finally"
  /\ loc.db_status = "not_found"
  /\ excel[loc.sheet_name].rows # <<>>
  /\ loc.error_message = TableMissing

\* the steps of a call in the order of the code, and the steps from which the
\* call goes to its finally clause by an exception or a return
Successor ==
  {<<"idle", "resolve">>, <<"resolve", "query">>, <<"query", "load">>,
   <<"load", "cut">>, <<"cut", "check_empty">>, <<"check_empty", "validate">>,
   <<"validate", "confirm">>, <<"confirm", "insert">>, <<"insert", "batch">>,
   <<"batch", "inserted">>, <<"inserted", "finally">>, <<"finally", "idle">>}

Steps == {"resolve", "query", "load", "cut", "check_empty", "validate",
          "confirm", "insert", "batch", "inserted"}

\* the call fails at its present step
FailStep == RunStep /\ pc' = "finally" /\ loc'.error_message # ""

\* C12: the steps of a call follow one another in the order query, load,
\* cut, validate, confirm, write, report, each entered only from the one
\* before it or left for the report; a step runs only while no error and no
\* outcome has been recorded and what the steps before it produce is there;
\* the store changes only at the end of the write; and the query, the load,
\* the confirmation and the write can each fail
C12_StepOrder ==
  /\ [][pc' # pc => (<<pc, pc'>> \in Successor
                       \/ (pc \in Steps /\ pc' = "finally"))]_vars
  /\ [](pc \in Steps
          => /\ loc.error_message = ""
             /\ (~loc.ejecucion_exitosa \/ pc = "inserted")
             /\ sent = 0)
  /\ [](pc \in Steps \ {"resolve", "query"}
          => loc.db_status \in {"ok", "empty"})
  /\ [](pc \in Steps \ {"resolve", "query", "load"}
          => loc.df_excel.rows # <<>>)
  /\ [](pc \in {"validate", "confirm", "insert", "batch", "inserted"}
          => loc.df_new_records.rows # <<>>)
  /\ [](pc \in {"confirm", "insert", "batch", "inserted"}
          => /\ loc.df_clean_records.rows # <<>>
             /\ loc.df_clean_records.rows
                  = validate_and_clean_data(loc.df_new_records,
                                            loc.sheet_name).df_clean.rows)
  /\ [](pc \in {"insert", "batch", "inserted"}
          => problematic_records_global
               = [set |-> TRUE, val |-> loc.problematic_records])
  /\ [](pc \in Steps \ {"inserted"} => store = store0)
  /\ [][store' # store => pc = "batch" /\ pc' = "inserted"]_vars
  /\ [](pc \in {"query", "load", "confirm", "insert", "batch"}
          => ENABLED FailStep)

\* the report of a call that went through every step has been sent
C12_Witness ==
  /\ pc = "idle"
  /\ sent = 1
  /\ report.ok
  /\ report.rows_inserted > 0
  /\ store # store0

\* the validator has left the current call no clean record
NoCleanRecord ==
  /\ pc # "idle"
  /\ loc.problematic_records # <<>>
  /\ loc.df_clean_records.rows = <<>>

C14_ReportListsOwnRecords ==
  [][(pc = "finally" /\ pc' = "idle")
       => \A j \in 1..Len(report'.problematic) :
            report'.problematic[j] \in Range(loc.problematic_records)]_vars

MaxTrackLen == 2

\* None if pd.isna(v) else v
NullIfNA(v) == IF IsNA(v) THEN None ELSE v

\* registro_bd.get(col)
DictGet(rec, col) == IF col \in DOMAIN rec THEN rec[col] ELSE None

\* lines 33-40: some column of the row differs from the stored record
RowDiffers(cols, cells, registro_bd) ==
  \E j \in 1..Len(cols) :
    NullIfNA(cells[cols[j]]) # NullIfNA(DictGet(registro_bd, cols[j]))

\* mutant: the rows that differ themselves, not the rows with their ids
track_changes_by_row(df_existing, records_dict) ==
  LET Differs(row) ==
        RowDiffers(df_existing.cols, row.cells,
                   records_dict[row.cells[id_column]])
  IN IF \E j \in 1..Len(df_existing.rows) :
          df_existing.rows[j].cells[id_column] \notin DOMAIN records_dict
       THEN [state |-> "raised", out |-> <<>>]
       ELSE [state |-> "returned",
             out |-> SelectSeq(df_existing.rows, Differs)]

\* mutant: a row whose id is not a key is skipped (records_dict.get and
\* continue)
track_changes_skipping(df_existing, records_dict) ==
  LET rows == df_existing.rows
      Known(row) == row.cells[id_column] \in DOMAIN records_dict
      modified_ids ==
        {rows[j].cells[id_column] : j \in
           {i \in 1..Len(rows) :
              /\ Known(rows[i])
              /\ RowDiffers(df_existing.cols, rows[i].cells,
                            records_dict[rows[i].cells[id_column]])}}
      IsIn(row) == row.cells[id_column] \in modified_ids
  IN [state |-> "returned", out |-> SelectSeq(rows, IsIn)]

\* lines 26-42; records_dict[record_id] raises KeyError for an id that is
\* not a key, and the rows returned are those whose id is in modified_ids
track_changes(df_existing, records_dict) ==
  LET rows == df_existing.rows
      modified_ids ==
        {rows[j].cells[id_column] : j \in
           {i \in 1..Len(rows) :
              RowDiffers(df_existing.cols, rows[i].cells,
                         records_dict[rows[i].cells[id_column]])}}
      IsIn(row) == row.cells[id_column] \in modified_ids
  IN IF \E j \in 1..Len(rows) :
          rows[j].cells[id_column] \notin DOMAIN records_dict
       THEN [state |-> "raised", out |-> <<>>]
       ELSE [state |-> "returned", out |-> SelectSeq(rows, IsIn)]

\* the arguments: rows with the ids 1 and 2 and a text or a missing value,
\* stored records with a normalised text, a NULL or no such column
TrackTexts == {Str(<<"a">>), Str(<<"A">>), Str(<<"A", "SP">>), None, NaN}
TrackRows ==
  {[c \in Range(AllCols) |-> IF c = id_column THEN Num(a) ELSE t] :
     a \in 1..2, t \in TrackTexts}
StoredRecords(a) ==
  {[c \in Range(AllCols) |-> IF c = id_column THEN Num(a) ELSE t] :
     t \in {Str(<<"A">>), None}}
    \cup {[c \in {id_column} |-> Num(a)]}
TrackDicts ==
  UNION {{d \in [{Num(a) : a \in ks} -> UNION {StoredRecords(a) : a \in ks}] :
            \A k \in DOMAIN d : d[k][id_column] = k} :
         ks \in {{1}, {1, 2}}}

InitTrack ==
  /\ excel = OneSheetWorkbook(<<>>)
  /\ tables = TableNames
  /\ store = [t \in TableNames |-> <<>>]
  /\ store0 = store
  /\ tx = <<>>
  /\ txOpen = FALSE
  /\ procs = 0
  /\ queue = <<>>
  /\ problematic_records_global = GlobalUnset
  /\ pc = "idle"
  /\ loc = LocInit("")
  /\ w = WInit
  /\ sent = 0
  /\ report = NoReport
  /\ \E rs \in SeqsUpTo(TrackRows, MaxTrackLen), d \in TrackDicts :
       tracked = [state |-> "called",
                  df_existing |-> ValFrame(rs, 0),
                  records_dict |-> d,
                  out |-> <<>>]

\* one call of track_changes, from its entry to its return or its KeyError
TrackChanges ==
  /\ tracked.state = "called"
  /\ LET res == track_changes(tracked.df_existing, tracked.records_dict)
     IN tracked' = [tracked EXCEPT !.state = res.state, !.out = res.out]
  /\ UNCHANGED <<excel, tables, store, store0, tx, txOpen, procs, queue,
                 problematic_records_global, pc, loc, w, sent, report>>

SpecTrack == InitTrack /\ [][TrackChanges]_vars

\* the rows given to the track_changes call and the stored record of a row
TrackedRows == tracked.df_existing.rows
StoredOf(row) == tracked.records_dict[row.cells[id_column]]

\* no other row given to the call has the id of row j
IdOnlyAt(j) ==
  \A i \in 1..Len(TrackedRows) :
    TrackedRows[i].cells[id_column] = TrackedRows[j].cells[id_column] => i = j

\* every column of the row equals the stored one once both are normalised
SameAfterNormalisation(row) ==
  \A c \in Range(tracked.df_existing.cols) :
    _normalize_text(NullIfNA(row.cells[c]))
      = _normalize_text(NullIfNA(DictGet(StoredOf(row), c)))

\* C16: a row whose values equal the stored record's values after
\* normalisation, and whose id no other row has, is not among the rows
\* track_changes returns
C16_NormalisedEqualNotFlagged ==
  tracked.state = "returned"
    => \A j \in 1..Len(TrackedRows) :
         (IdOnlyAt(j) /\ SameAfterNormalisation(TrackedRows[j]))
           => TrackedRows[j] \notin Range(tracked.out)

\* a value that stands for NULL: None or NaN
IsNullish(v) == v.k \in {"none", "nan"}

\* some column of the row is NULL on one side only, or holds different
\* values on the two sides; a column the stored record lacks counts as NULL
ColumnsDiffer(row) ==
  \E c \in Range(tracked.df_existing.cols) :
    LET a == row.cells[c]
        bNull == c \notin DOMAIN StoredOf(row) \/ IsNullish(StoredOf(row)[c])
    IN \/ IsNullish(a) /\ ~bNull
       \/ ~IsNullish(a) /\ bNull
       \/ ~IsNullish(a) /\ ~bNull /\ a # StoredOf(row)[c]

\* the rows of a sequence that are in a set, in the order of the sequence
Restrict(rows, S) ==
  LET InS(row) == row \in S
  IN SelectSeq(rows, InS)

MaxTextLen == 3

Characters == {"a", "A", "SP", "a_acute", "ACUTE"}
NormValues == {Str(t) : t \in SeqsUpTo(Characters, MaxTextLen)} \cup {Num(5)}

InitNormalize ==
  /\ excel = OneSheetWorkbook(<<>>)
  /\ tables = TableNames
  /\ store = [t \in TableNames |-> <<>>]
  /\ store0 = store
  /\ tx = <<>>
  /\ txOpen = FALSE
  /\ procs = 1
  /\ queue = Tail(sheets_name)
  /\ problematic_records_global = [set |-> TRUE, val |-> <<>>]
  /\ pc = "insert"
  /\ \E v \in NormValues :
       LET df == ValFrame(<<[c \in Range(AllCols) |->
                              IF c = id_column THEN Num(1) ELSE v]>>, 0)
       IN loc = [LocInit(Head(sheets_name)) EXCEPT
                   !.table_name = TableOf(Head(sheets_name)),
                   !.db_status = "empty",
                   !.df_excel = df,
                   !.df_new_records = df,
                   !.df_clean_records = df,
                   !.response_user = "s"]
  /\ w = WInit
  /\ sent = 0
  /\ report = NoReport
  /\ tracked = NoTrack

SpecNormalize == InitNormalize /\ [][InsertBegin]_vars

\* the values the writer holds have been through _normalize_text once
Normalised == pc = "batch" /\ w.data # <<>>

\* C18: a value that has been through _normalize_text is left as it is by
\* _normalize_text, and a value that is not a text went through unchanged
C18_NormalizeIdempotent ==
  Normalised
    => \A j \in 1..Len(w.data) :
         /\ _normalize_text(w.data[j][text_column]) = w.data[j][text_column]
         /\ loc.df_clean_records.rows[j].cells[text_column].k = "num"
              => w.data[j][text_column]
                   = loc.df_clean_records.rows[j].cells[text_column]

\* ------------------------------------------------------------------------
\* get_last_transfer_id on its own: any table of a few rows, the id column
\* of which the database may hold NULL in
\* ------------------------------------------------------------------------
\* most rows of a table handed to get_last_transfer_id
MaxStoreLen == 2

QueryRows ==
  {[c \in Range(AllCols) |-> IF c = id_column THEN a ELSE Str(<<"A">>)] :
     a \in {Num(1), Num(2), None}}

InitQuery ==
  /\ excel = OneSheetWorkbook(<<GoodRow(1)>>)
  /\ tables \in SUBSET TableNames
  /\ store \in [TableNames -> SeqsUpTo(QueryRows, MaxStoreLen)]
  /\ \A t \in TableNames : t \notin tables => store[t] = <<>>
  /\ store0 = store
  /\ tx = <<>>
  /\ txOpen = FALSE
  /\ procs = 1
  /\ queue = <<>>
  /\ problematic_records_global = GlobalUnset
  /\ pc = "query"
  /\ \E sh \in SheetNames :
       loc = [LocInit(sh) EXCEPT !.table_name = TableOf(sh)]
  /\ w = WInit
  /\ sent = 0
  /\ report = NoReport
  /\ tracked = NoTrack

SpecQuery == InitQuery /\ [][QueryState]_vars

\* get_last_transfer_id has returned to the current call
Queried == pc # "idle" /\ loc.db_status # ""

\* the ids of the rows of a table that are not NULL
StoredIds(rows) ==
  {rows[j][id_column].n : j \in {i \in 1..Len(rows) :
                                    rows[i][id_column].k = "num"}}

\* C19: the state returned is one of the four; it is not_found only for a
\* table that does not exist, empty only for a table that exists and has no
\* row, and for a table that exists and has a row it is ok with the
\* greatest stored id unless the query failed
C19_FourStates ==
  Queried
    => LET t == loc.table_name
       IN /\ loc.db_status \in {"ok", "empty", "not_found", "error"}
          /\ loc.db_status = "not_found" => t \notin tables
          /\ loc.db_status = "empty" => (t \in tables /\ store0[t] = <<>>)
          /\ (t \in tables /\ store0[t] # <<>> /\ loc.db_status # "error")
               => /\ loc.db_status = "ok"
                  /\ StoredIds(store0[t]) # {}
                  /\ loc.last_transfer_id = Num(MaxOf(StoredIds(store0[t])))

\* xlsx_to_df gives the current call no row of its sheet
SheetEmpty == DfEmpty(ReadSheet(excel[loc.sheet_name]))

\* C20: a call that is past the load of a sheet without rows has failed with
\* the empty-source error; a call with that error is at its report, not
\* successful, with no cut searched, no record validated, the writer never
\* entered and nothing written; the error is raised at the load only; and
\* its report is a failure report of a call that changed no table
C20_EmptySourceFails ==
  /\ [](/\ (pc \in (Steps \ {"resolve", "query", "load"}) \cup {"finally"}
             /\ loc.db_status \in {"ok", "empty"}
             /\ SheetEmpty)
            => loc.error_message = EmptySource
        /\ (pc # "idle" /\ loc.error_message = EmptySource)
            => /\ pc = "finally"
               /\ ~loc.ejecucion_exitosa
               /\ loc.rows_inserted = 0
               /\ loc.df_excel = NoDF
               /\ loc.df_new_records = NoDF
               /\ loc.last_match_index = -1
               /\ loc.df_clean_records = NoDF
               /\ loc.problematic_records = <<>>
               /\ w = WInit
               /\ NothingWritten
        /\ (pc = "idle" /\ report.error = EmptySource)
            => ~report.ok /\ report.rows_inserted = 0 /\ store = store0)
  /\ [][(loc'.error_message = EmptySource /\ loc.error_message # EmptySource)
         => pc = "load"]_vars

\* the sheet of a table that holds rows has no row
C20_Witness ==
  /\ pc = "finally"
  /\ loc.error_message = EmptySource
  /\ loc.db_status = "ok"
  /\ excel[loc.sheet_name].rows = <<>>

\* ------------------------------------------------------------------------
\* C21
\* ------------------------------------------------------------------------
\* the call is inside insert_new_modified_records, or has returned from it
InWriter == pc \in {"insert", "batch", "inserted"}

\* the operator answered the prompt with something other than s or S
Declined == loc.response_user # "" /\ Lower(loc.response_user) # "s"

\* C21: the batch writer is called only after the operator answered s to
\* the confirmation prompt, and a call whose confirmation was declined
\* writes no row to the store
C21_WriteOnlyAfterApproval ==
  /\ InWriter => Lower(loc.response_user) = "s"
  /\ txOpen => Lower(loc.response_user) = "s"
  /\ (pc # "idle" /\ Declined) => (NothingWritten /\ pc = "finally")
  /\ [][/\ (pc' = "insert" /\ pc # "insert") => pc = "confirm"
        /\ (store' # store \/ tx' # tx) => Lower(loc.response_user) = "s"
        /\ (pc = "finally" /\ Declined) => store' = store0]_vars

\* the operator declines the insertion of clean records that were waiting
C21_Witness ==
  /\ pc = "finally"
  /\ Declined
  /\ loc.df_clean_records.rows # <<>>
  /\ store = store0

\* ------------------------------------------------------------------------
\* C22
\* ------------------------------------------------------------------------
\* the messages of the exceptions insert_new_modified_records can raise
WriterErrors == {EngineFailure, WriteFailure, CommitFailure}

\* the call has left insert_new_modified_records by an exception
WriterRaised == pc = "finally" /\ loc.error_message \in WriterErrors

Rank(p) ==
  CASE p = "idle" -> 0
    [] p = "resolve" -> 1
    [] p = "query" -> 2
    [] p = "load" -> 3
    [] p = "cut" -> 4
    [] p = "check_empty" -> 5
    [] p = "validate" -> 6
    [] p = "confirm" -> 7
    [] p = "insert" -> 8
    [] p = "batch" -> 9
    [] p = "inserted" -> 10
    [] p = "finally" -> 11

\* C23: the write path has no retry: a failing batch ends the loop over the
\* batches of that call, and a call of export_excel_to_postgres enters the
\* batch writer at most once
C23_NoRetry ==
  /\ [][pc' # pc => (Rank(pc') > Rank(pc) \/ (pc = "finally" /\ pc' = "idle"))]_vars
  /\ [][(pc = "batch" /\ pc' = "batch")
          => /\ w'.i = w.i + batch_size
             /\ tx' = tx \o Batch(w.data, w.i)]_vars
  /\ [][(pc = "batch" /\ loc'.error_message = WriteFailure)
          => /\ pc' = "finally"
             /\ w'.i = w.i
             /\ tx' = <<>>
             /\ store' = store]_vars
  /\ [](WriterRaised => (tx = <<>> /\ ~txOpen /\ store = store0))
  /\ [][WriterRaised => (pc' = "idle" /\ store' = store /\ tx' = tx)]_vars

\* the second batch of the bulk sheet has failed: the third was never run
C23_Witness ==
  /\ WriterRaised
  /\ loc.error_message = WriteFailure
  /\ w.i = batch_size
  /\ w.i + batch_size < Len(w.data)
  /\ store = store0

\* ------------------------------------------------------------------------
\* C24
\* ------------------------------------------------------------------------
\* C24: the transaction that insert_new_modified_records opens is committed
\* or rolled back on every way out of the call, so none is open when the
\* call has returned or raised, nor when the next call begins
C24_TransactionClosedOnExit ==
  /\ [](txOpen => pc = "batch")
  /\ [](pc # "batch" => (~txOpen /\ tx = <<>>))
  /\ [][(pc = "batch" /\ pc' # "batch")
          => /\ ~txOpen'
             /\ tx' = <<>>
             /\ \/ (pc' = "inserted" /\ store' = [store EXCEPT ![CurTable] = @ \o tx])
                \/ (pc' = "finally" /\ store' = store
                      /\ loc'.error_message \in WriterErrors)]_vars
  /\ [][pc' = "resolve" => (~txOpen /\ ~txOpen' /\ tx' = <<>>)]_vars

\* a transaction holding the rows of one batch was rolled back by the failure
\* of the next batch
C24_Witness ==
  /\ pc = "finally"
  /\ loc.error_message = WriteFailure
  /\ w.total_inserted > 0
  /\ ~txOpen
  /\ tx = <<>>

\* ------------------------------------------------------------------------
\* C25
\* ------------------------------------------------------------------------
\* the loop over the batches has ended
BatchesDone == pc = "batch" /\ w.i >= Len(w.data)

\* C25: insert_new_modified_records sends the records in consecutive batches
\* of at most batch_size rows, in input order, every record in exactly one
\* batch, only the last batch shorter than batch_size, and the running total
\* after the last batch is the number of records
C25_BatchesPartitionRecords ==
  /\ [](pc = "batch"
          => /\ w.i % batch_size = 0
             /\ tx = SubSeq(w.data, 1, Min(w.i, Len(w.data)))
             /\ w.total_inserted = Len(tx))
  /\ [][(pc = "batch" /\ pc' = "batch")
          => LET batch == SubSeq(tx', Len(tx) + 1, Len(tx'))
             IN /\ tx' = tx \o batch
                /\ Len(batch) >= 1
                /\ Len(batch) <= batch_size
                /\ batch = SubSeq(w.data, w.i + 1, w.i + Len(batch))
                /\ Len(batch) < batch_size => w'.i >= Len(w.data)]_vars
  /\ [](BatchesDone => (tx = w.data /\ w.total_inserted = Len(w.data)))
  /\ [](pc = "inserted"
          => w.total_inserted = Len(loc.df_clean_records.rows))

\* three batches, the last one shorter, have been executed
C25_Witness ==
  /\ BatchesDone
  /\ Len(w.data) > 2 * batch_size
  /\ Len(w.data) % batch_size # 0
  /\ w.total_inserted = Len(w.data)

\* ------------------------------------------------------------------------
\* C26
\* ------------------------------------------------------------------------
\* the ids of the rows given to the call that are no key of records_dict
UnknownIds ==
  {TrackedRows[j].cells[id_column] : j \in 1..Len(TrackedRows)}
    \ DOMAIN tracked.records_dict

\* C26: a call of track_changes with a row whose id is not a key of the
\* stored records ends with an error and returns no rows; a call that
\* returns was given only rows with stored ids
C26_UnknownIdRaises ==
  tracked.state \in {"raised", "returned"}
    => /\ (UnknownIds # {}) <=> (tracked.state = "raised")
       /\ tracked.state = "raised" => tracked.out = <<>>
       /\ tracked.state = "returned"
            => \A j \in 1..Len(tracked.out) :
                 tracked.out[j].cells[id_column] \in DOMAIN tracked.records_dict

\* the first row differs from its stored record and the second row has an
\* id that is not stored: the call raises and the first row is not returned
C26_Witness ==
  /\ tracked.state = "raised"
  /\ Len(TrackedRows) = 2
  /\ TrackedRows[1].cells[id_column] \in DOMAIN tracked.records_dict
  /\ RowDiffers(tracked.df_existing.cols, TrackedRows[1].cells,
                StoredOf(TrackedRows[1]))
  /\ TrackedRows[2].cells[id_column] \in UnknownIds
  /\ tracked.out = <<>>

\* ------------------------------------------------------------------------
\* C27
\* ------------------------------------------------------------------------
\* the number of rows the current call has committed to the store
Committed ==
  Len(store[CurTable]) - Len(store0[CurTable])

\* C27: the rows_inserted of the report of a call is the number of rows the
\* call committed to the store: the number of clean records when the
\* insertion returned, and 0 on every other path
C27_ReportedCountIsCommitted ==
  /\ [](pc = "finally"
          => /\ loc.rows_inserted = Committed
             /\ \A t \in TableNames \ {CurTable} : store[t] = store0[t]
             /\ IF loc.status_message = InsertsDone
                  THEN /\ Committed = Len(loc.df_clean_records.rows)
                       /\ Committed > 0
                  ELSE Committed = 0)
  /\ [][pc = "finally"
          => /\ report'.rows_inserted = Committed
             /\ report'.sheet = loc.sheet_name
             /\ store' = store]_vars

\* an insertion that left a problematic record out has returned
C27_Witness ==
  /\ pc = "finally"
  /\ loc.status_message = InsertsDone
  /\ loc.problematic_records # <<>>
  /\ loc.rows_inserted = Committed
  /\ Committed < Len(loc.df_new_records.rows)

\* ------------------------------------------------------------------------
\* C28
\* ------------------------------------------------------------------------
\* pd.to_numeric(errors="coerce") finds no number in the value
Uncoercible(value) == ToNumeric(value).k # "num"

\* the row of the sheet a row of df_excel was read from
SourceRow(row) == excel[loc.sheet_name].rows[row.index + 1]

\* the id of each row of a sequence of stored or prepared rows is a number
IdsAreNumbers(rows) == \A j \in 1..Len(rows) : rows[j][id_column].k = "num"

\* C28: a source row whose id cannot be coerced to a number has the id NaN
\* in df_excel, is never the row of the cut, is reported by the validator
\* whenever it is among the new records, and is never written to the store
C28_UncoercibleIdNeverWritten ==
  /\ SourceLoaded
       => \A j \in 1..Len(loc.df_excel.rows) :
            Uncoercible(SourceRow(loc.df_excel.rows[j])[id_column])
              <=> loc.df_excel.rows[j].cells[id_column] = NaN
  /\ (pc # "idle" /\ loc.last_match_index >= 0)
       => loc.df_excel.rows[loc.last_match_index + 1].cells[id_column].k = "num"
  /\ pc \in {"confirm", "insert", "batch", "inserted"}
       => /\ \A j \in 1..Len(loc.df_new_records.rows) :
               loc.df_new_records.rows[j].cells[id_column] = NaN
                 => loc.df_new_records.rows[j].index \in QuarantinedIndices
          /\ \A j \in 1..Len(loc.df_clean_records.rows) :
               loc.df_clean_records.rows[j].cells[id_column].k = "num"
  /\ pc # "idle" => (IdsAreNumbers(w.data) /\ IdsAreNumbers(tx)
                       /\ IdsAreNumbers(WrittenRows))

\* a sheet with a row whose id is a text and a good row, both new: the good
\* row alone has been written
C28_Witness ==
  /\ pc = "finally"
  /\ loc.status_message = InsertsDone
  /\ loc.db_status = "empty"
  /\ \E j \in 1..Len(loc.df_new_records.rows) :
       /\ SourceRow(loc.df_new_records.rows[j])[id_column].k = "str"
       /\ loc.df_new_records.rows[j].index \in QuarantinedIndices
  /\ Len(WrittenRows) = 1
  /\ IdsAreNumbers(WrittenRows)

\* ------------------------------------------------------------------------
\* One call of export_excel_to_postgres made directly, with any sheet name
\* ------------------------------------------------------------------------
\* a sheet name the function does not recognise
UnknownSheet == "OTRA"

InitDirect ==
  /\ excel \in SmallWorkbooks
  /\ tables \in SUBSET TableNames
  /\ store \in [TableNames -> InitStores]
  /\ \A t \in TableNames : t \notin tables => store[t] = <<>>
  /\ store0 = store
  /\ tx = <<>>
  /\ txOpen = FALSE
  /\ procs = 0
  /\ queue = <<>>
  /\ problematic_records_global = GlobalUnset
  /\ pc = "resolve"
  /\ \E sh \in SheetNames \cup {UnknownSheet} : loc = LocInit(sh)
  /\ w = WInit
  /\ sent = 0
  /\ report = NoReport
  /\ tracked = NoTrack

\* the steps of the call, from the try statement to its return
NextDirect ==
  \/ ResolveTable
  \/ QueryState
  \/ LoadSource
  \/ LocateCut
  \/ CheckNewRecords
  \/ Validate
  \/ Confirm
  \/ InsertBegin
  \/ InsertBatch
  \/ InsertCommit
  \/ AfterInsert
  \/ Finally

SpecDirect == InitDirect /\ [][NextDirect]_vars

\* ------------------------------------------------------------------------
\* C29
\* ------------------------------------------------------------------------
\* the status messages of the three successful ends of a call
SuccessStatuses == {NoNewData, AllProblematic, InsertsDone}

\* C29: a call is successful only when it found no new record after the
\* cut, when the validator reported every new record, or when the insertion
\* returned; on every other path, a declined confirmation and a sheet that
\* is not recognised among them, the report sent is a failure report
C29_SuccessOnlyOnThreePaths ==
  /\ [](loc.ejecucion_exitosa
          => /\ pc = "finally"
             /\ loc.error_message = ""
             /\ loc.status_message \in SuccessStatuses)
  /\ []((pc = "finally" /\ loc.status_message = NoNewData)
          => (DfEmpty(loc.df_new_records) /\ store = store0))
  /\ []((pc = "finally" /\ loc.status_message = AllProblematic)
          => /\ ~DfEmpty(loc.df_new_records)
             /\ DfEmpty(loc.df_clean_records)
             /\ store = store0)
  /\ []((pc = "finally" /\ loc.status_message = InsertsDone)
          => /\ Lower(loc.response_user) = "s"
             /\ w.data # <<>>
             /\ WrittenRows = w.data)
  /\ []((pc = "finally"
           /\ (Declined \/ loc.sheet_name \notin SheetNames
                 \/ loc.error_message # ""))
          => ~loc.ejecucion_exitosa)
  /\ [][sent' # sent
          => /\ pc = "finally"
             /\ report'.ok = loc.ejecucion_exitosa
             /\ report'.ok => report'.status \in SuccessStatuses
             /\ ~report'.ok => report'.status = ""]_vars

\* the failure report of a call for a sheet that is not recognised
C29_Witness ==
  /\ sent = 1
  /\ report.sheet = UnknownSheet
  /\ ~report.ok
  /\ report.error = UnknownSheetError
====
